---- MODULE Spec2Model ----
(***************************************************************************)
(* A model of src/src/typescript-simple-loader.ts: the webpack loader that *)
(* keeps, per configuration key, a registry of versioned file texts for a  *)
(* TypeScript language service.                                            *)
(*                                                                         *)
(* Strings that the code inspects (paths, contexts, queries) are sequences *)
(* of one-character strings, so that the suffix test of isDefinition and   *)
(* the concatenation that builds the instance id are computed.  A JS value *)
(* that may be undefined is a sequence: << >> is undefined, <<v>> is v.    *)
(* A JS object used as a map is a function whose DOMAIN is its key set.    *)
(***************************************************************************)
EXTENDS Integers, Sequences, FiniteSets, TLC

VARIABLES
    loaderInstances,   \* line 48: id -> LoaderInstance
    currentLoader,     \* line 53: << >> or <<loader>>
    disk,              \* the file system: path -> content, for the paths that exist
    watchRunPlugins,   \* handlers registered on 'watch-run' (line 209), by instance id
    emitPlugins,       \* handlers registered on 'emit' (line 228), by instance id
    request,           \* the activation that ran last, its inputs and how it ended
    callbacks,         \* loader.callback invocations of that activation, in order
    emitErrors,        \* loader.emitError invocations of that activation
    dependencies,      \* addDependency invocations of that activation: <<loader, path>>
    resolved,          \* getScriptSnapshot calls of that activation: path -> result
    before,            \* loaderInstances as that activation found it
    events,            \* how many requests, watch cycles, disk changes and emits have happened
    given              \* what the compiler was given before that activation:
                       \* <<id, path, version, text>>

vars == <<loaderInstances, currentLoader, disk, watchRunPlugins, emitPlugins,
          request, callbacks, emitErrors, dependencies, resolved, before, events,
          given>>

----------------------------------------------------------------------------
(* Bounds of the model. *)

\* Most compile requests the host makes, of one session and of several.
MaxRequests == 2
MaxSessionRequests == 3
\* Most watch cycles the host runs.
MaxWatchRuns == 1
\* Most paths one watch cycle reports.
MaxChanged == 2
\* Most paths, besides the script file names, the service resolves in one pass.
MaxRefs == 1
\* Most changes the environment makes to the file system.
MaxDiskOps == 1
\* Most emits the host runs, most requests it makes besides, and most
\* diagnostics of one kind a program reports.
MaxEmits == 1
MaxEmitRequests == 2
MaxDiagnostics == 1
\* The greatest offset of a diagnostic in its file.
MaxStart == 11
\* Most requests and most file-system changes of a run whose version stamps
\* are recorded.
MaxVersionRequests == 3
MaxVersionDiskOps == 2

A_TS  == <<"a", ".", "t", "s">>
D_TS  == <<"d", ".", "t", "s">>
A_DTS == <<"a", ".", "d", ".", "t", "s">>
B_DTS == <<"b", ".", "d", ".", "t", "s">>

Paths == {A_TS, D_TS, A_DTS, B_DTS}
Texts == {"t1", "t2"}
\* A file that statSync reports as a file and readFileSync fails to read.
Unreadable == "unreadable"

Contexts == {<<"p">>}
\* "?c" stands for a query that sets the configFile option.
QueryConfigFile == <<"?", "c">>
Queries == {<< >>, QueryConfigFile}

\* What sits where the project configuration is looked for.
Tsconfigs == {"absent", "malformed", "invalid", "valid"}
\* The "files" of a valid tsconfig.json.
TsconfigFiles == {B_DTS}

----------------------------------------------------------------------------
(* Helpers for the JS values. *)

Undefined == << >>
Some(v) == <<v>>

\* delete obj[key]
Delete(obj, key) == [k \in DOMAIN obj \ {key} |-> obj[k]]

\* obj[key] = value, on a map that may or may not hold the key
Put(obj, key, value) == [k \in DOMAIN obj \cup {key} |-> IF k = key THEN value ELSE obj[k]]

EmptyMap == [k \in {} |-> 0]

----------------------------------------------------------------------------
(* The file system. *)

\* Lines 248-254: statSync(fileName).isFile(), false when statSync throws.
fileExists(fs, fileName) == fileName \in DOMAIN fs

\* readFileSync throws for a path that is missing or cannot be read.
readFileSyncThrows(fs, fileName) ==
    \/ fileName \notin DOMAIN fs
    \/ fs[fileName] = Unreadable

readFileSync(fs, fileName) == fs[fileName]

\* Lines 314-316: /\.d\.ts$/.test(fileName)
DefinitionSuffix == <<".", "d", ".", "t", "s">>

isDefinition(fileName) ==
    /\ Len(fileName) >= Len(DefinitionSuffix)
    /\ SubSeq(fileName, Len(fileName) - Len(DefinitionSuffix) + 1, Len(fileName))
           = DefinitionSuffix

----------------------------------------------------------------------------
(* Configuration: lines 100-154 and 321-339. *)

\* Lines 100-102: JSON.parse(readFileSync(fileName)) throws when the file is
\* missing or is not JSON.
loadConfigFileThrows(tsconfig) == tsconfig \in {"absent", "malformed"}

\* Lines 321-339: the path of the nearest tsconfig.json, or undefined.  The
\* directories of the model's paths exist, so statSync does not throw.
findConfigFile(tsconfig) ==
    IF tsconfig = "absent" THEN Undefined ELSE Some("tsconfig.json")

\* Line 296 and lines 33-36: the options the query carries.
parseQuery(query) ==
    [configFile |-> IF query = QueryConfigFile THEN Some("c") ELSE Undefined]

\* Lines 107-134.  The compiler options are merged last from the loader, so
\* sourceMap is the flag of the loader that is passed in.
readConfigFile(configFile, loaderSourceMap, tsconfig) ==
    IF configFile # Undefined /\ loadConfigFileThrows(tsconfig)
    THEN [threw |-> TRUE, files |-> {}, sourceMap |-> FALSE, invalid |-> FALSE]
    ELSE [threw |-> FALSE,
          files |-> IF configFile # Undefined /\ tsconfig = "valid"
                    THEN TsconfigFiles ELSE {},
          sourceMap |-> loaderSourceMap,
          invalid |-> configFile # Undefined /\ tsconfig = "invalid"]

----------------------------------------------------------------------------
(* The language service host: lines 156-202. *)

\* Lines 157-163: config.fileNames.concat(Object.keys(files)).  The calls the
\* service makes for different names do not affect one another, so the names
\* are kept as a set.
getScriptFileNames(instance) == instance.fileNames \cup DOMAIN instance.files

\* Lines 164-166: the version stamp, undefined for a path with no record.
getScriptVersion(files, fileName) ==
    IF fileName \in DOMAIN files THEN Some(files[fileName].version) ELSE Undefined

\* getScriptSnapshot with a bug: a registered file is read from disk again.
getScriptSnapshotReload(files, fs, current, fileName) ==
    IF fileExists(fs, fileName)
    THEN IF readFileSyncThrows(fs, fileName)
         THEN [files |-> files, snapshot |-> Undefined, deps |-> {}]
         ELSE LET loaded == Put(files, fileName,
                                [version |-> IF fileName \in DOMAIN files
                                             THEN files[fileName].version ELSE 0,
                                 text |-> readFileSync(fs, fileName)])
              IN  [files |-> loaded,
                   snapshot |-> Some(loaded[fileName].text),
                   deps |-> IF current # Undefined /\ isDefinition(fileName)
                            THEN {<<current[1], fileName>>}
                            ELSE {}]
    ELSE [files |-> Delete(files, fileName), snapshot |-> Undefined, deps |-> {}]

\* getScriptSnapshot with a bug: a path that is not on disk is registered as
\* an empty file.
getScriptSnapshotEmpty(files, fs, current, fileName) ==
    LET loaded == IF fileName \in DOMAIN files
                  THEN files
                  ELSE Put(files, fileName,
                           [version |-> 0,
                            text |-> IF readFileSyncThrows(fs, fileName)
                                     THEN ""
                                     ELSE readFileSync(fs, fileName)])
    IN  [files |-> loaded,
         snapshot |-> Some(loaded[fileName].text),
         deps |-> IF current # Undefined /\ isDefinition(fileName)
                        /\ fileExists(fs, fileName)
                  THEN {<<current[1], fileName>>}
                  ELSE {}]

\* getScriptSnapshot with a bug: every call bumps the version of a
\* registered file.
getScriptSnapshotBump(files, fs, current, fileName) ==
    IF fileExists(fs, fileName)
    THEN IF fileName \notin DOMAIN files /\ readFileSyncThrows(fs, fileName)
         THEN [files |-> files, snapshot |-> Undefined, deps |-> {}]
         ELSE LET loaded == IF fileName \in DOMAIN files
                            THEN [files EXCEPT ![fileName].version = @ + 1]
                            ELSE Put(files, fileName,
                                     [version |-> 0, text |-> readFileSync(fs, fileName)])
              IN  [files |-> loaded,
                   snapshot |-> Some(loaded[fileName].text),
                   deps |-> IF current # Undefined /\ isDefinition(fileName)
                            THEN {<<current[1], fileName>>}
                            ELSE {}]
    ELSE [files |-> Delete(files, fileName), snapshot |-> Undefined, deps |-> {}]

\* getScriptSnapshot with a bug: the registry is looked at before the file
\* system, so the record of a path that has left the disk is kept and served.
getScriptSnapshotRegistryFirst(files, fs, current, fileName) ==
    IF fileName \in DOMAIN files
    THEN [files |-> files,
          snapshot |-> Some(files[fileName].text),
          deps |-> IF current # Undefined /\ isDefinition(fileName)
                   THEN {<<current[1], fileName>>}
                   ELSE {}]
    ELSE IF fileExists(fs, fileName) /\ ~readFileSyncThrows(fs, fileName)
         THEN [files |-> Put(files, fileName,
                             [version |-> 0, text |-> readFileSync(fs, fileName)]),
               snapshot |-> Some(readFileSync(fs, fileName)),
               deps |-> IF current # Undefined /\ isDefinition(fileName)
                        THEN {<<current[1], fileName>>}
                        ELSE {}]
         ELSE [files |-> files, snapshot |-> Undefined, deps |-> {}]

\* Lines 167-194.  The result holds the registry after the call, the snapshot
\* returned (undefined or the text) and the addDependency calls made.
getScriptSnapshot(files, fs, current, fileName) ==
    IF fileExists(fs, fileName)
    THEN IF fileName \notin DOMAIN files /\ readFileSyncThrows(fs, fileName)
         THEN [files |-> files, snapshot |-> Undefined, deps |-> {}]
         ELSE LET loaded == IF fileName \in DOMAIN files
                            THEN files
                            ELSE Put(files, fileName,
                                     [version |-> 0, text |-> readFileSync(fs, fileName)])
              IN  [files |-> loaded,
                   snapshot |-> Some(loaded[fileName].text),
                   deps |-> IF current # Undefined /\ isDefinition(fileName)
                            THEN {<<current[1], fileName>>}
                            ELSE {}]
    ELSE [files |-> Delete(files, fileName), snapshot |-> Undefined, deps |-> {}]

\* The service asks the host for the snapshot of every name in `names`: the
\* script file names and the files the program refers to.
RECURSIVE resolveAll(_, _, _, _)
resolveAll(files, fs, current, names) ==
    IF names = {}
    THEN [files |-> files, deps |-> {}, snapshots |-> EmptyMap]
    ELSE LET fileName == CHOOSE n \in names : TRUE
             one == getScriptSnapshot(files, fs, current, fileName)
             rest == resolveAll(one.files, fs, current, names \ {fileName})
         IN  [files |-> rest.files,
              deps |-> one.deps \cup rest.deps,
              snapshots |-> Put(rest.snapshots, fileName, one.snapshot)]

\* What the service emits for a source text.
EmittedJs(text) == [ext |-> "js", source |-> text]
EmittedMap(text) == [ext |-> "map", source |-> text]

\* service.getEmitOutput(fileName), line 76, as the loader relies on it: the
\* service synchronises with the host (a snapshot of every script file name
\* and of every file in `refs` that the program refers to), reports the
\* emission as skipped when the target has no snapshot or does not parse, and
\* otherwise emits the JavaScript, preceded by the source map when the
\* compiler options of the instance ask for one.  The service is not part
\* of the loader: for a target that has no snapshot, so that the program has
\* no source file for it, the service either reports the emission as skipped
\* or, with `throws`, throws after the synchronisation.
getEmitOutput(instance, fs, current, fileName, refs, unparsable, throws) ==
    LET sync == resolveAll(instance.files, fs, current,
                           getScriptFileNames(instance) \cup refs \cup {fileName})
        threw == throws /\ sync.snapshots[fileName] = Undefined
        emitSkipped == ~threw /\ (sync.snapshots[fileName] = Undefined \/ unparsable)
        text == sync.snapshots[fileName][1]
    IN  [files |-> sync.files,
         deps |-> sync.deps,
         snapshots |-> sync.snapshots,
         threw |-> threw,
         emitSkipped |-> emitSkipped,
         outputFiles |-> IF emitSkipped \/ threw THEN << >>
                         ELSE IF instance.sourceMap
                              THEN <<EmittedMap(text), EmittedJs(text)>>
                              ELSE <<EmittedJs(text)>>]

----------------------------------------------------------------------------
(* Instances: lines 139-154, 204-243 and 294-309. *)

\* Line 295: the id is the context followed by the query.
InstanceId(loader) == loader.context \o loader.query

\* Lines 139-154 and 204-243: the service for a new instance.  It throws when
\* the configuration cannot be loaded; otherwise it reports the configuration
\* errors and registers the two plugins.
createService(loader, options, tsconfig) ==
    LET configFile == IF options.configFile # Undefined
                      THEN options.configFile
                      ELSE findConfigFile(tsconfig)
        config == readConfigFile(configFile, loader.sourceMap, tsconfig)
    IN  [threw |-> config.threw,
         emitErrors |-> IF ~config.threw /\ config.invalid THEN 1 ELSE 0,
         plugins |-> IF config.threw THEN << >> ELSE <<InstanceId(loader)>>,
         fileNames |-> config.files,
         sourceMap |-> config.sourceMap]

\* getLoaderInstance with a bug: the cache is never consulted.
getLoaderInstanceUncached(instances, loader, tsconfig, serial) ==
    LET id == InstanceId(loader)
        service == createService(loader, parseQuery(loader.query), tsconfig)
    IN  IF service.threw
        THEN [threw |-> TRUE, instances |-> instances, emitErrors |-> 0,
              plugins |-> << >>]
        ELSE [threw |-> FALSE,
              instances |-> Put(instances, id,
                                [files |-> EmptyMap,
                                 fileNames |-> service.fileNames,
                                 sourceMap |-> service.sourceMap,
                                 context |-> loader.context,
                                 query |-> loader.query,
                                 serial |-> serial]),
              emitErrors |-> service.emitErrors,
              plugins |-> service.plugins]

\* Lines 294-309: the cached instance of the loader's id, or a new one that
\* is cached before it is returned.  `context` and `query` are those of the
\* loader that the service and the plugins of the instance close over.
getLoaderInstance(instances, loader, tsconfig, serial) ==
    LET id == InstanceId(loader)
        service == createService(loader, parseQuery(loader.query), tsconfig)
    IN  IF id \in DOMAIN instances
        THEN [threw |-> FALSE, instances |-> instances, emitErrors |-> 0,
              plugins |-> << >>]
        ELSE IF service.threw
             THEN [threw |-> TRUE, instances |-> instances, emitErrors |-> 0,
                   plugins |-> << >>]
             ELSE [threw |-> FALSE,
                   instances |-> Put(instances, id,
                                     [files |-> EmptyMap,
                                      fileNames |-> service.fileNames,
                                      sourceMap |-> service.sourceMap,
                                      context |-> loader.context,
                                      query |-> loader.query,
                                      serial |-> serial]),
                   emitErrors |-> service.emitErrors,
                   plugins |-> service.plugins]

----------------------------------------------------------------------------
(* The watch-run plugin: lines 209-224. *)

\* watchRunForEach with a bug: every reported file that has a record is read
\* again, a declaration file or not.
RECURSIVE watchRunForEachAnyFile(_, _, _)
watchRunForEachAnyFile(files, fs, mtimes) ==
    IF mtimes = << >>
    THEN [files |-> files, threw |-> FALSE]
    ELSE LET fileName == Head(mtimes)
         IN  IF fileName \in DOMAIN files
             THEN IF readFileSyncThrows(fs, fileName)
                  THEN [files |-> files, threw |-> TRUE]
                  ELSE watchRunForEachAnyFile(
                           [files EXCEPT ![fileName] =
                               [version |-> @.version + 1,
                                text |-> readFileSync(fs, fileName)]],
                           fs, Tail(mtimes))
             ELSE watchRunForEachAnyFile(files, fs, Tail(mtimes))

\* Lines 212-221: the forEach over Object.keys(mtimes), in key order.  A
\* readFileSync that throws ends the handler where it stands.
RECURSIVE watchRunForEach(_, _, _)
watchRunForEach(files, fs, mtimes) ==
    IF mtimes = << >>
    THEN [files |-> files, threw |-> FALSE]
    ELSE LET fileName == Head(mtimes)
         IN  IF fileName \in DOMAIN files /\ isDefinition(fileName)
             THEN IF readFileSyncThrows(fs, fileName)
                  THEN [files |-> files, threw |-> TRUE]
                  ELSE watchRunForEach(
                           [files EXCEPT ![fileName] =
                               [version |-> @.version + 1,
                                text |-> readFileSync(fs, fileName)]],
                           fs, Tail(mtimes))
             ELSE watchRunForEach(files, fs, Tail(mtimes))

\* The compiler applies the 'watch-run' plugins in the order they were
\* registered, each starting when the one before it has called cb (line 223);
\* a handler that throws ends the cycle.
RECURSIVE applyWatchRun(_, _, _, _)
applyWatchRun(instances, plugins, fs, mtimes) ==
    IF plugins = << >>
    THEN [instances |-> instances, cbs |-> << >>, threw |-> FALSE]
    ELSE LET id == Head(plugins)
             run == watchRunForEach(instances[id].files, fs, mtimes)
             after == [instances EXCEPT ![id].files = run.files]
             rest == applyWatchRun(after, Tail(plugins), fs, mtimes)
         IN  IF run.threw
             THEN [instances |-> after, cbs |-> << >>, threw |-> TRUE]
             ELSE [instances |-> rest.instances,
                   cbs |-> <<id>> \o rest.cbs,
                   threw |-> rest.threw]

----------------------------------------------------------------------------
(* Diagnostics: lines 259-286. *)

\* The compilation object an 'emit' handler is handed (line 228), with the
\* two lists the handler appends to.
NoCompilation == [warnings |-> << >>, errors |-> << >>]

\* A messageText is a string or a DiagnosticMessageChain; the chain is kept
\* as the sequence of the messageText of its links.
StringMessage(text) == [kind |-> "string", text |-> text]
ChainMessage(links) == [kind |-> "chain", links |-> links]

\* The loop of ts.flattenDiagnosticMessageText (line 260) over the links
\* that are left: every link but the first starts on a new line, indented by
\* two spaces for each link before it.
RECURSIVE flattenChain(_, _, _)
flattenChain(links, indent, newLine) ==
    IF links = << >>
    THEN << >>
    ELSE (IF indent > 0
          THEN newLine \o [i \in 1..(2 * indent) |-> " "]
          ELSE << >>)
         \o Head(links)
         \o flattenChain(Tail(links), indent + 1, newLine)

\* Line 260: ts.flattenDiagnosticMessageText(messageText, newLine).
flattenDiagnosticMessageText(messageText, newLine) ==
    IF messageText.kind = "string"
    THEN messageText.text
    ELSE flattenChain(messageText.links, 0, newLine)

\* The offsets at which the lines of a text start: a line ends at "\n", at
\* "\r" and at "\r\n".  `pos` is the offset of the next character to read.
RECURSIVE computeLineStarts(_, _, _)
computeLineStarts(text, pos, lineStart) ==
    IF pos >= Len(text)
    THEN <<lineStart>>
    ELSE LET ch == text[pos + 1]
             next == IF ch = "\r" /\ pos + 1 < Len(text) /\ text[pos + 2] = "\n"
                     THEN pos + 2
                     ELSE pos + 1
         IN  IF ch \in {"\r", "\n"}
             THEN <<lineStart>> \o computeLineStarts(text, next, next)
             ELSE computeLineStarts(text, next, lineStart)

\* Line 263: file.getLineAndCharacterOfPosition(position), both 0-based: the
\* last line that starts at or before the position, and the distance from
\* its start.
getLineAndCharacterOfPosition(file, position) ==
    LET lineStarts == computeLineStarts(file.text, 0, 0)
        lineNumber == CHOOSE n \in DOMAIN lineStarts :
                          /\ lineStarts[n] <= position
                          /\ \A m \in DOMAIN lineStarts :
                                 lineStarts[m] <= position => m <= n
    IN  [line |-> lineNumber - 1, character |-> position - lineStarts[lineNumber]]

Digits == <<"0", "1", "2", "3", "4", "5", "6", "7", "8", "9">>

\* The string a template literal makes of a non-negative integer (line 265).
RECURSIVE NumberToString(_)
NumberToString(n) ==
    IF n < 10
    THEN <<Digits[n + 1]>>
    ELSE NumberToString(n \div 10) \o <<Digits[(n % 10) + 1]>>

\* formatDiagnostic with a bug: the line and the character are printed as
\* the compiler counts them, from 0.
formatDiagnosticFromZero(diagnostic) ==
    LET message == flattenDiagnosticMessageText(diagnostic.messageText, <<"\n">>)
    IN  IF diagnostic.file # Undefined
        THEN LET at == getLineAndCharacterOfPosition(diagnostic.file[1], diagnostic.start)
             IN  <<"(">> \o NumberToString(at.line) \o <<",">>
                     \o NumberToString(at.character) \o <<")", ":", " ">>
                     \o message
        ELSE message

\* Lines 259-269.
formatDiagnostic(diagnostic) ==
    LET message == flattenDiagnosticMessageText(diagnostic.messageText, <<"\n">>)
    IN  IF diagnostic.file # Undefined
        THEN LET at == getLineAndCharacterOfPosition(diagnostic.file[1], diagnostic.start)
             IN  <<"(">> \o NumberToString(at.line + 1) \o <<",">>
                     \o NumberToString(at.character + 1) \o <<")", ":", " ">>
                     \o message
        ELSE message

\* Line 283: urlToRequest(relative(context, fileName)).  The paths of the
\* model are files of the directory that holds the context directory, so the
\* relative path climbs one level, and urlToRequest keeps a path that starts
\* with "../" as it is.
urlToRequest(context, fileName) == <<".", ".", "/">> \o fileName

\* Lines 274-286: the error object made of a diagnostic.
DiagosticError(diagnostic, context) ==
    [name |-> "DiagnosticError",
     diagnostic |-> diagnostic,
     context |-> context,
     message |-> formatDiagnostic(diagnostic),
     file |-> IF diagnostic.file # Undefined
              THEN Some(urlToRequest(context, diagnostic.file[1].fileName))
              ELSE Undefined]

----------------------------------------------------------------------------
(* The emit plugin: lines 228-240. *)

\* pushDiagnostics with a bug: the two lists are taken for one another.
pushDiagnosticsSwapped(compilation, program, context) ==
    [warnings |-> compilation.warnings
                      \o [i \in DOMAIN program.syntactic |->
                             DiagosticError(program.syntactic[i], context)],
     errors |-> compilation.errors
                    \o [i \in DOMAIN program.semantic |->
                           DiagosticError(program.semantic[i], context)]]

\* Lines 231-237: the two forEach loops over the diagnostics of the program.
pushDiagnostics(compilation, program, context) ==
    [warnings |-> compilation.warnings
                      \o [i \in DOMAIN program.semantic |->
                             DiagosticError(program.semantic[i], context)],
     errors |-> compilation.errors
                    \o [i \in DOMAIN program.syntactic |->
                           DiagosticError(program.syntactic[i], context)]]

\* The compiler applies the 'emit' plugins in the order they were registered,
\* each starting when the one before it has called cb (line 239).  A handler
\* asks its service for the program (line 229), for which the service takes
\* from the host a snapshot of every script file name and of the files in
\* `refs` that the program refers to, and then pushes the diagnostics that
\* `programs` gives for its instance.
RECURSIVE applyEmit(_, _, _, _, _, _, _)
applyEmit(instances, plugins, fs, current, programs, refs, compilation) ==
    IF plugins = << >>
    THEN [instances |-> instances, compilation |-> compilation, cbs |-> << >>,
          deps |-> {}]
    ELSE LET id == Head(plugins)
             sync == resolveAll(instances[id].files, fs, current,
                                getScriptFileNames(instances[id]) \cup refs)
             after == [instances EXCEPT ![id].files = sync.files]
             pushed == pushDiagnostics(compilation, programs[id],
                                       instances[id].context)
             rest == applyEmit(after, Tail(plugins), fs, current, programs, refs,
                               pushed)
         IN  [instances |-> rest.instances,
              compilation |-> rest.compilation,
              cbs |-> <<id>> \o rest.cbs,
              deps |-> sync.deps \cup rest.deps]

----------------------------------------------------------------------------
(* The loader: lines 58-95. *)

NoRequest == [op |-> "none", id |-> << >>, context |-> << >>, query |-> << >>,
              resourcePath |-> << >>,
              content |-> "", sourceMap |-> FALSE, tsconfig |-> "",
              emitSkipped |-> FALSE, threw |-> FALSE,
              mtimes |-> << >>, cbs |-> << >>,
              programs |-> EmptyMap, compilation |-> NoCompilation,
              diagnostic |-> << >>, message |-> << >>]

\* SetFile with a bug: a request whose text equals the stored text keeps the
\* version.
SetFileIfChanged(files, fileName, content) ==
    IF fileName \in DOMAIN files /\ files[fileName].text = content
    THEN files
    ELSE Put(files, fileName,
             [version |-> (IF fileName \in DOMAIN files
                           THEN files[fileName].version ELSE 0) + 1,
              text |-> content])

\* SetFile with a bug: the record of a new path is left at version 0.
SetFileFromZero(files, fileName, content) ==
    Put(files, fileName,
        [version |-> IF fileName \in DOMAIN files THEN files[fileName].version + 1 ELSE 0,
         text |-> content])

\* Lines 62-73: the record of the target after the request has set it.
SetFile(files, fileName, content) ==
    Put(files, fileName,
        [version |-> (IF fileName \in DOMAIN files THEN files[fileName].version ELSE 0) + 1,
         text |-> content])

\* StoreFiles with a bug: one registry shared by every instance.
StoreFilesShared(instances, id, files) ==
    [k \in DOMAIN instances |-> [instances[k] EXCEPT !.files = files]]

\* Lines 61-73 and 176: `files` is the map the instance holds, so what the
\* request and the host write to it is written to the instance of `id` alone.
StoreFiles(instances, id, files) == [instances EXCEPT ![id].files = files]

\* Deliver with a bug: a skipped emission is handed on as empty code.
DeliverSkippedAsEmpty(this, content, output) ==
    LET index == IF this.sourceMap THEN 2 ELSE 1
    IN  IF output.emitSkipped
        THEN [threw |-> FALSE,
              callbacks |-> <<[err |-> Undefined,
                               contents |-> Some([ext |-> "js", source |-> ""]),
                               sourceMap |-> Undefined]>>]
        ELSE IF index > Len(output.outputFiles)
             THEN [threw |-> TRUE, callbacks |-> << >>]
             ELSE [threw |-> FALSE,
                   callbacks |->
                     <<[err |-> Undefined,
                        contents |-> Some(output.outputFiles[index]),
                        sourceMap |-> IF this.sourceMap
                                      THEN Some([parsed |-> output.outputFiles[1],
                                                 sources |-> <<this.resourcePath>>,
                                                 file |-> this.resourcePath,
                                                 sourcesContent |-> <<content>>])
                                      ELSE Undefined]>>]

\* Lines 79-94: what the loader hands to loader.callback for an emit output,
\* or nothing when reading the output throws (outputFiles[1] of a one-file
\* output is undefined).
Deliver(this, content, output) ==
    IF output.emitSkipped
    THEN [threw |-> FALSE,
          callbacks |-> <<[err |-> Some(<<this.resourcePath, "File not found">>),
                           contents |-> Undefined, sourceMap |-> Undefined]>>]
    ELSE LET index == IF this.sourceMap THEN 2 ELSE 1
         IN  IF index > Len(output.outputFiles)
             THEN [threw |-> TRUE, callbacks |-> << >>]
             ELSE [threw |-> FALSE,
                   callbacks |->
                     <<[err |-> Undefined,
                        contents |-> Some(output.outputFiles[index]),
                        sourceMap |-> IF this.sourceMap
                                      THEN Some([parsed |-> output.outputFiles[1],
                                                 sources |-> <<this.resourcePath>>,
                                                 file |-> this.resourcePath,
                                                 sourcesContent |-> <<content>>])
                                      ELSE Undefined]>>]

\* Lines 58-95: one compile request, from getLoaderInstance to the callback.
\* `tsconfig` is what the configuration lookup finds, `refs` the files the
\* program refers to, `unparsable` whether the compiler declines to emit,
\* `throws` whether the service throws for a target it has no source file of.
\* An exception out of getEmitOutput (line 76) leaves the handler before
\* line 77, with currentLoader still set.
loader(context, query, resourcePath, content, sourceMap, tsconfig, refs, unparsable, throws) ==
    LET this == [context |-> context, query |-> query,
                 resourcePath |-> resourcePath, sourceMap |-> sourceMap]
        id == InstanceId(this)
        got == getLoaderInstance(loaderInstances, this, tsconfig,
                                 Len(watchRunPlugins) + 1)
        asked == [NoRequest EXCEPT !.op = "loader", !.id = id,
                     !.context = context, !.query = query,
                     !.resourcePath = resourcePath, !.content = content,
                     !.sourceMap = sourceMap, !.tsconfig = tsconfig]
    IN  /\ events' = [events EXCEPT !.requests = @ + 1]
        /\ before' = loaderInstances
        /\ UNCHANGED disk
        /\ IF got.threw
           THEN /\ request' = [asked EXCEPT !.threw = TRUE]
                /\ callbacks' = << >>
                /\ emitErrors' = 0
                /\ dependencies' = {}
                /\ resolved' = EmptyMap
                /\ UNCHANGED <<loaderInstances, currentLoader, watchRunPlugins, emitPlugins>>
           ELSE LET instance == got.instances[id]
                    set == [instance EXCEPT !.files = SetFile(@, resourcePath, content)]
                    output == getEmitOutput(set, disk, Some(this), resourcePath,
                                            refs, unparsable, throws)
                    delivered == IF output.threw
                                 THEN [threw |-> TRUE, callbacks |-> << >>]
                                 ELSE Deliver(this, content, output)
                IN  /\ loaderInstances' = StoreFiles(got.instances, id, output.files)
                    /\ currentLoader' = IF output.threw THEN Some(this) ELSE Undefined
                    /\ watchRunPlugins' = watchRunPlugins \o got.plugins
                    /\ emitPlugins' = emitPlugins \o got.plugins
                    /\ request' = [asked EXCEPT !.emitSkipped = output.emitSkipped,
                                                !.threw = delivered.threw]
                    /\ callbacks' = delivered.callbacks
                    /\ emitErrors' = got.emitErrors
                    /\ dependencies' = output.deps
                    /\ resolved' = output.snapshots

\* The watch-run hook of a watch cycle that reports `mtimes`.
WatchRun(mtimes) ==
    LET run == applyWatchRun(loaderInstances, watchRunPlugins, disk, mtimes)
    IN  /\ events.watchRuns < MaxWatchRuns
        /\ events' = [events EXCEPT !.watchRuns = @ + 1]
        /\ before' = loaderInstances
        /\ loaderInstances' = run.instances
        /\ request' = [NoRequest EXCEPT !.op = "watch-run", !.mtimes = mtimes,
                          !.cbs = run.cbs, !.threw = run.threw]
        /\ callbacks' = << >>
        /\ emitErrors' = 0
        /\ dependencies' = {}
        /\ resolved' = EmptyMap
        /\ UNCHANGED <<currentLoader, disk, watchRunPlugins, emitPlugins>>

\* The emit hook of a compilation: `programs` gives the diagnostics of each
\* instance's program, `refs` the files the programs refer to.
Emit(programs, refs) ==
    LET run == applyEmit(loaderInstances, emitPlugins, disk, currentLoader,
                         programs, refs, NoCompilation)
    IN  /\ events.emits < MaxEmits
        /\ emitPlugins # << >>
        /\ events' = [events EXCEPT !.emits = @ + 1]
        /\ before' = loaderInstances
        /\ loaderInstances' = run.instances
        /\ request' = [NoRequest EXCEPT !.op = "emit", !.programs = programs,
                          !.compilation = run.compilation, !.cbs = run.cbs]
        /\ callbacks' = << >>
        /\ emitErrors' = 0
        /\ dependencies' = run.deps
        /\ resolved' = EmptyMap
        /\ UNCHANGED <<currentLoader, disk, watchRunPlugins, emitPlugins>>

----------------------------------------------------------------------------
(* The environment: the file system changes under the program. *)

\* No handler is running while the file system changes.
Idle ==
    /\ request' = [NoRequest EXCEPT !.op = "disk"]
    /\ callbacks' = << >>
    /\ emitErrors' = 0
    /\ dependencies' = {}
    /\ resolved' = EmptyMap
    /\ before' = loaderInstances
    /\ UNCHANGED <<loaderInstances, currentLoader, watchRunPlugins, emitPlugins>>

WriteFile(fileName, content) ==
    /\ ~(fileName \in DOMAIN disk /\ disk[fileName] = content)
    /\ events' = [events EXCEPT !.diskOps = @ + 1]
    /\ disk' = Put(disk, fileName, content)
    /\ Idle

RemoveFile(fileName) ==
    /\ fileName \in DOMAIN disk
    /\ events' = [events EXCEPT !.diskOps = @ + 1]
    /\ disk' = Delete(disk, fileName)
    /\ Idle

----------------------------------------------------------------------------
(* The specifications. *)

\* The sets of at most n elements of S.
SubsetsUpTo(S, n) == {T \in SUBSET S : Cardinality(T) <= n}

\* The key orders of a mapping that reports at most n of the paths in S.
Mtimes(S, n) ==
    {m \in UNION {[1..k -> S] : k \in 0..n} :
        \A i, j \in DOMAIN m : i # j => m[i] # m[j]}

\* At start no instance exists and every path is a readable file.
Init ==
    /\ loaderInstances = EmptyMap
    /\ currentLoader = Undefined
    /\ disk = [fileName \in Paths |-> "t1"]
    /\ watchRunPlugins = << >>
    /\ emitPlugins = << >>
    /\ request = NoRequest
    /\ callbacks = << >>
    /\ emitErrors = 0
    /\ dependencies = {}
    /\ resolved = EmptyMap
    /\ before = EmptyMap
    /\ events = [requests |-> 0, watchRuns |-> 0, diskOps |-> 0, emits |-> 0]
    /\ given = {}

\* The host compiles modules, never declaration files.  The configuration is
\* looked for only when the request makes a new instance, and the service has
\* a source file for a target that is on disk.
LoaderStep(limit, contexts, queries, targets, flags, tsconfigs, files, skips, throwing) ==
    \E context \in contexts, query \in queries,
       resourcePath \in {t \in targets : ~isDefinition(t)} :
        /\ events.requests < limit
        /\ \E tsconfig \in IF context \o query \in DOMAIN loaderInstances
                        THEN {"absent"} ELSE tsconfigs :
             \E content \in Texts, sourceMap \in flags,
                refs \in SubsetsUpTo(files, MaxRefs), unparsable \in skips,
                throws \in IF fileExists(disk, resourcePath)
                           THEN {FALSE} ELSE throwing :
                 loader(context, query, resourcePath, content, sourceMap,
                        tsconfig, refs, unparsable, throws)

WatchRunStep(files) == \E mtimes \in Mtimes(files, MaxChanged) : WatchRun(mtimes)

WriteFileStep(limit, files) ==
    \E fileName \in files, content \in Texts \cup {Unreadable} :
        /\ events.diskOps < limit
        /\ WriteFile(fileName, content)

RemoveFileStep(limit, files) ==
    \E fileName \in files :
        /\ events.diskOps < limit
        /\ RemoveFile(fileName)

\* What the compiler was given by the activation that ran last: for every
\* path the host returned a snapshot of (lines 167-194), the version stamp
\* of the path (lines 164-166) and the text of the snapshot.
GivenNow ==
    IF request.op = "loader" /\ request.id \in DOMAIN loaderInstances
    THEN {<<request.id, fileName,
            getScriptVersion(loaderInstances[request.id].files, fileName)[1],
            resolved[fileName][1]>> :
              fileName \in {f \in DOMAIN resolved : resolved[f] # Undefined}}
    ELSE {}

\* A source file of a program, and the diagnostics the programs report: the
\* semantic ones with and without a file, a syntactic one.
SampleFile == [fileName |-> A_TS, text |-> <<"l", "e", "t", "\n", "x", "=">>]

SemanticDiagnostics ==
    {[file |-> Some(SampleFile), start |-> 4, code |-> 2322,
      messageText |-> ChainMessage(<<<<"t", "y", "p", "e">>, <<"n", "o">>>>)],
     [file |-> Undefined, start |-> 0, code |-> 2318,
      messageText |-> StringMessage(<<"g", "l", "o", "b", "a", "l">>)]}

SyntacticDiagnostics ==
    {[file |-> Some(SampleFile), start |-> 6, code |-> 1005,
      messageText |-> StringMessage(<<";">>)]}

\* The sequences without repetition of at most n elements of S.
SeqsUpTo(S, n) ==
    {q \in UNION {[1..k -> S] : k \in 0..n} :
        \A i, j \in DOMAIN q : i # j => q[i] # q[j]}

Programs ==
    [semantic : SeqsUpTo(SemanticDiagnostics, MaxDiagnostics),
     syntactic : SeqsUpTo(SyntacticDiagnostics, MaxDiagnostics)]

EmitStep(files) ==
    \E programs \in [{emitPlugins[i] : i \in DOMAIN emitPlugins} -> Programs],
       refs \in SubsetsUpTo(files, MaxRefs) :
        Emit(programs, refs)

\* One instance, its registry over all the paths, under watch cycles and
\* file-system changes.
Next ==
    /\ \/ LoaderStep(MaxRequests, Contexts, {<< >>}, Paths, {FALSE}, {"absent", "valid"}, Paths,
                     BOOLEAN, BOOLEAN)
       \/ WatchRunStep(Paths)
       \/ WriteFileStep(MaxDiskOps, Paths)
       \/ RemoveFileStep(MaxDiskOps, Paths)
    /\ UNCHANGED given

Spec == Init /\ [][Next]_vars

\* Several instances and every configuration, over one module and one
\* declaration file that stay as they are on disk.
SessionPaths == {A_TS, A_DTS}

NextSessions ==
    /\ \/ LoaderStep(MaxSessionRequests, Contexts, Queries, SessionPaths, BOOLEAN, Tsconfigs,
                     SessionPaths, {FALSE}, {FALSE})
       \/ WatchRunStep(SessionPaths)
    /\ UNCHANGED given

SpecSessions == Init /\ [][NextSessions]_vars

\* The two hooks of the host, over instances with and without a project
\* configuration, while files disappear from disk.
NextEmit ==
    /\ \/ LoaderStep(MaxEmitRequests, Contexts, Queries, SessionPaths, {FALSE},
                     {"absent", "valid"}, SessionPaths, {FALSE}, BOOLEAN)
       \/ WatchRunStep(SessionPaths)
       \/ EmitStep(SessionPaths)
       \/ RemoveFileStep(MaxDiskOps, SessionPaths)
    /\ UNCHANGED given

SpecEmit == Init /\ [][NextEmit]_vars

\* One instance that compiles one module which refers to one declaration
\* file, while the two files are removed and written again; what the
\* compiler is given is recorded.
NextVersions ==
    /\ \/ LoaderStep(MaxVersionRequests, Contexts, {<< >>}, {A_TS}, {FALSE},
                     {"absent"}, {A_DTS}, {FALSE}, BOOLEAN)
       \/ WatchRunStep({A_DTS})
       \/ WriteFileStep(MaxVersionDiskOps, SessionPaths)
       \/ RemoveFileStep(MaxVersionDiskOps, SessionPaths)
    /\ given' = given \cup GivenNow

SpecVersions == Init /\ [][NextVersions]_vars

\* Two compilers in one process, the context of one being the context of the
\* other followed by the text of a query, with and without that query.
KeyContexts == {<<"p">>, <<"p">> \o QueryConfigFile}

NextKeys ==
    /\ \/ LoaderStep(MaxSessionRequests, KeyContexts, Queries, SessionPaths, {FALSE},
                     {"valid"}, SessionPaths, {FALSE}, {FALSE})
       \/ WatchRunStep(SessionPaths)
    /\ UNCHANGED given

SpecKeys == Init /\ [][NextKeys]_vars

\* formatDiagnostic by itself: the source files a diagnostic may lie in (a
\* line longer than nine characters, lines ended by "\n", by "\r\n" and by
\* "\r", more than nine lines), the message texts, and the diagnostics made
\* of them at every offset of the file.
SourceFiles ==
    {[fileName |-> A_TS,
      text |-> <<"c", "o", "n", "s", "t", " ", "x", "=", "1", ";", "/">>],
     [fileName |-> D_TS,
      text |-> <<"a", "\n", "b", "c", "\n", "\n", "d">>],
     [fileName |-> A_DTS,
      text |-> <<"a", "\r", "\n", "b", "\r", "c">>],
     [fileName |-> B_DTS,
      text |-> <<"\n", "\n", "\n", "\n", "\n", "\n", "\n", "\n", "\n", "\n">>]}

MessageTexts ==
    {StringMessage(<<"m">>),
     ChainMessage(<<<<"m">>, <<"n">>>>),
     ChainMessage(<<<<"m">>, <<"n">>, <<"o">>>>)}

FormatInputs ==
    {[file |-> Some(file), start |-> start, code |-> 2322, messageText |-> messageText] :
        file \in SourceFiles, start \in 0..MaxStart, messageText \in MessageTexts}
    \cup {[file |-> Undefined, start |-> 0, code |-> 2318, messageText |-> messageText] :
              messageText \in MessageTexts}

InitFormat ==
    /\ loaderInstances = EmptyMap
    /\ currentLoader = Undefined
    /\ disk = [fileName \in Paths |-> "t1"]
    /\ watchRunPlugins = << >>
    /\ emitPlugins = << >>
    /\ \E diagnostic \in FormatInputs :
           /\ diagnostic.file # Undefined =>
                  diagnostic.start <= Len(diagnostic.file[1].text)
           /\ request = [NoRequest EXCEPT !.op = "diagnostic",
                                          !.diagnostic = Some(diagnostic)]
    /\ callbacks = << >>
    /\ emitErrors = 0
    /\ dependencies = {}
    /\ resolved = EmptyMap
    /\ before = EmptyMap
    /\ events = [requests |-> 0, watchRuns |-> 0, diskOps |-> 0, emits |-> 0]
    /\ given = {}

\* One call of formatDiagnostic, on the diagnostic that is waiting.
FormatDiagnostic ==
    /\ request.op = "diagnostic"
    /\ request' = [request EXCEPT !.op = "formatDiagnostic",
                                  !.message = Some(formatDiagnostic(request.diagnostic[1]))]
    /\ UNCHANGED <<loaderInstances, currentLoader, disk, watchRunPlugins, emitPlugins,
                   callbacks, emitErrors, dependencies, resolved, before, events,
                   given>>

SpecFormat == InitFormat /\ [][FormatDiagnostic]_vars

----------------------------------------------------------------------------
(* What the claims speak of. *)

\* The last activation was a compile request that a session served.
Served == request.op = "loader" /\ request.id \in DOMAIN loaderInstances

\* The registry of the request's session, after and before the request.
FilesNow == loaderInstances[request.id].files

FilesBefore ==
    IF request.id \in DOMAIN before THEN before[request.id].files ELSE EmptyMap

\* The version of a path; a record is created at version 0.
VersionIn(files, fileName) ==
    IF fileName \in DOMAIN files THEN files[fileName].version ELSE 0

Readable(fileName) == fileName \in DOMAIN disk /\ disk[fileName] # Unreadable

NoDuplicates(seq) == \A i, j \in DOMAIN seq : i # j => seq[i] # seq[j]

Range(seq) == {seq[i] : i \in DOMAIN seq}

----------------------------------------------------------------------------
(* C1 *)

\* C1 as stated: every compile request a session serves leaves the target's
\* record at a version strictly greater than before the request.
C1_VersionGrowsAlways ==
    Served =>
        /\ request.resourcePath \in DOMAIN FilesNow
        /\ FilesNow[request.resourcePath].version
               > VersionIn(FilesBefore, request.resourcePath)

\* C1, amended: a compile request for a path that exists on disk leaves the
\* path's record at a version strictly greater than before the request, also
\* when the text is the stored text; a compile request for a path that is
\* missing from disk leaves the path without a record.
C1_VersionGrowsOnDisk ==
    Served =>
        IF fileExists(disk, request.resourcePath)
        THEN /\ request.resourcePath \in DOMAIN FilesNow
             /\ FilesNow[request.resourcePath].version
                    > VersionIn(FilesBefore, request.resourcePath)
        ELSE request.resourcePath \notin DOMAIN FilesNow

\* A second request for a path with the text the registry already held.
C1_Witness ==
    /\ Served
    /\ fileExists(disk, request.resourcePath)
    /\ request.resourcePath \in DOMAIN FilesBefore
    /\ FilesBefore[request.resourcePath].text = request.content
    /\ FilesNow[request.resourcePath].version
           = FilesBefore[request.resourcePath].version + 1

----------------------------------------------------------------------------
(* C2 *)

\* C2 as stated: after a watch cycle that reports a declaration file which a
\* session has registered and which can be read from disk, the record holds
\* the file's content on disk at a version strictly greater than before.
C2_ReportedDeclarationRefreshed ==
    request.op = "watch-run" =>
        \A id \in DOMAIN before : \A i \in DOMAIN request.mtimes :
            LET fileName == request.mtimes[i]
            IN  (/\ isDefinition(fileName)
                 /\ fileName \in DOMAIN before[id].files
                 /\ Readable(fileName))
                => /\ fileName \in DOMAIN loaderInstances[id].files
                   /\ loaderInstances[id].files[fileName].text = disk[fileName]
                   /\ loaderInstances[id].files[fileName].version
                          > before[id].files[fileName].version

----------------------------------------------------------------------------
(* C3 *)

\* C3: a compile request whose emission the compiler reports as skipped calls
\* back once, with the error "<file>: File not found" and neither code nor
\* source map.
C3_SkippedEmissionIsAnError ==
    (request.op = "loader" /\ request.emitSkipped) =>
        callbacks = <<[err |-> Some(<<request.resourcePath, "File not found">>),
                       contents |-> Undefined,
                       sourceMap |-> Undefined]>>

\* An emission skipped for a target that is on disk, and one skipped for a
\* target that is not.
C3_Witness ==
    /\ request.op = "loader"
    /\ request.emitSkipped
    /\ Len(callbacks) = 1
    /\ callbacks[1].err # Undefined

----------------------------------------------------------------------------
(* C4 *)

\* C4 as stated: a compile request that calls back without an error returns
\* the JavaScript emitted for the request's text, and a source map exactly
\* when the request asked for one.
C4_CodeAndMapAsRequested ==
    (request.op = "loader" /\ callbacks # << >> /\ callbacks[1].err = Undefined) =>
        /\ callbacks[1].contents = Some(EmittedJs(request.content))
        /\ (callbacks[1].sourceMap # Undefined) <=> request.sourceMap

----------------------------------------------------------------------------
(* C5 *)

\* C5: a compile request, with the loads it triggers, leaves every session
\* but its own as it was and makes no session but its own; a watch cycle
\* creates and removes no record, and the record it leaves for a path in a
\* session is that session's record, unchanged or refreshed from disk at the
\* next version.
C5_SessionsDisjoint ==
    /\ request.op = "loader" =>
          /\ DOMAIN loaderInstances \subseteq DOMAIN before \cup {request.id}
          /\ \A id \in DOMAIN before \ {request.id} :
                 /\ id \in DOMAIN loaderInstances
                 /\ loaderInstances[id] = before[id]
    /\ request.op = "watch-run" =>
          /\ DOMAIN loaderInstances = DOMAIN before
          /\ \A id \in DOMAIN before :
                 /\ DOMAIN loaderInstances[id].files = DOMAIN before[id].files
                 /\ \A fileName \in DOMAIN before[id].files :
                        \/ loaderInstances[id].files[fileName]
                               = before[id].files[fileName]
                        \/ /\ Readable(fileName)
                           /\ loaderInstances[id].files[fileName]
                                  = [version |-> before[id].files[fileName].version + 1,
                                     text |-> disk[fileName]]

\* Two sessions hold the same path with the same text, and a request has
\* just changed that path's record in one of them.
C5_Witness ==
    /\ Served
    /\ request.id \in DOMAIN before
    /\ \E id \in DOMAIN before \ {request.id} :
           /\ request.resourcePath \in DOMAIN before[id].files
           /\ request.resourcePath \in DOMAIN FilesBefore
           /\ before[id].files[request.resourcePath].text
                  = FilesBefore[request.resourcePath].text
           /\ request.resourcePath \in DOMAIN FilesNow
           /\ FilesNow[request.resourcePath] # FilesBefore[request.resourcePath]

----------------------------------------------------------------------------
(* C6 *)

\* C6 as stated: a compile request whose emission is skipped leaves its
\* session cached, and every other path's record with the text and version
\* it had.
C6_FailureKeepsOtherRecords ==
    (request.op = "loader" /\ request.emitSkipped) =>
        /\ request.id \in DOMAIN loaderInstances
        /\ request.id \in DOMAIN before =>
               loaderInstances[request.id].serial = before[request.id].serial
        /\ \A fileName \in DOMAIN FilesBefore \ {request.resourcePath} :
               /\ fileName \in DOMAIN FilesNow
               /\ FilesNow[fileName] = FilesBefore[fileName]

\* C6, amended: a compile request whose emission is skipped leaves its
\* session cached, and every other path's record either with the text and
\* version it had or, when the path is no longer on disk, removed.
C6_FailureKeepsOrDropsStale ==
    (request.op = "loader" /\ request.emitSkipped) =>
        /\ request.id \in DOMAIN loaderInstances
        /\ request.id \in DOMAIN before =>
               loaderInstances[request.id].serial = before[request.id].serial
        /\ \A fileName \in DOMAIN FilesBefore \ {request.resourcePath} :
               \/ /\ fileName \in DOMAIN FilesNow
                  /\ FilesNow[fileName] = FilesBefore[fileName]
               \/ /\ ~fileExists(disk, fileName)
                  /\ fileName \notin DOMAIN FilesNow

\* An emission skipped in a session that held the record of another path,
\* whose text is not the text on disk, and still holds it.
C6_Witness ==
    /\ request.op = "loader"
    /\ request.emitSkipped
    /\ request.id \in DOMAIN before
    /\ \E fileName \in DOMAIN FilesBefore \ {request.resourcePath} :
           /\ fileName \in DOMAIN FilesNow
           /\ FilesNow[fileName] = FilesBefore[fileName]
           /\ Readable(fileName)
           /\ FilesNow[fileName].text # disk[fileName]

----------------------------------------------------------------------------
(* C7 *)

\* C7: getScriptSnapshot for a path that has no record and is not on disk
\* returns undefined and makes no record; and whenever it returns undefined
\* for a path, the registry holds no record of the path afterwards.
C7_AbsentIsNotRegistered ==
    request.op = "loader" =>
        \A fileName \in DOMAIN resolved :
            /\ (/\ fileName # request.resourcePath
                /\ fileName \notin DOMAIN FilesBefore
                /\ ~fileExists(disk, fileName))
               => /\ resolved[fileName] = Undefined
                  /\ fileName \notin DOMAIN FilesNow
            /\ resolved[fileName] = Undefined => fileName \notin DOMAIN FilesNow

\* The service asked for a path that is neither registered nor on disk.
C7_Witness ==
    /\ request.op = "loader"
    /\ \E fileName \in DOMAIN resolved :
           /\ fileName # request.resourcePath
           /\ fileName \notin DOMAIN FilesBefore
           /\ ~fileExists(disk, fileName)
           /\ resolved[fileName] = Undefined
           /\ fileName \notin DOMAIN FilesNow

----------------------------------------------------------------------------
(* C8 *)

\* C8: getScriptSnapshot for a path on disk that had no record returns the
\* text on disk and leaves the record at version 0 with that text; called
\* again for the path, it returns the text of that record, whatever is on
\* disk by then, and leaves the record as it was, at version 0.
C8_LazyLoadOnce ==
    request.op = "loader" =>
        \A fileName \in DOMAIN resolved \ {request.resourcePath} :
            /\ (fileName \notin DOMAIN FilesBefore /\ Readable(fileName))
               => /\ resolved[fileName] = Some(disk[fileName])
                  /\ fileName \in DOMAIN FilesNow
                  /\ FilesNow[fileName] = [version |-> 0, text |-> disk[fileName]]
            /\ (/\ fileName \in DOMAIN FilesBefore
                /\ FilesBefore[fileName].version = 0
                /\ fileExists(disk, fileName))
               => /\ resolved[fileName] = Some(FilesBefore[fileName].text)
                  /\ fileName \in DOMAIN FilesNow
                  /\ FilesNow[fileName] = FilesBefore[fileName]

\* The second call for a lazily loaded path, after the file changed on disk.
C8_Witness ==
    /\ request.op = "loader"
    /\ \E fileName \in DOMAIN resolved \ {request.resourcePath} :
           /\ fileName \in DOMAIN FilesBefore
           /\ FilesBefore[fileName].version = 0
           /\ Readable(fileName)
           /\ disk[fileName] # FilesBefore[fileName].text
           /\ resolved[fileName] = Some(FilesBefore[fileName].text)
           /\ FilesNow[fileName].version = 0

----------------------------------------------------------------------------
(* C9 *)

\* The configuration file the request loads is not JSON, or is named by the
\* configFile option and missing.
ConfigurationUnloadable ==
    \/ request.tsconfig = "malformed"
    \/ /\ request.tsconfig = "absent"
       /\ parseQuery(request.query).configFile # Undefined

\* C9 as stated, for a configuration file that cannot be loaded: the request
\* that makes the session reports it through emitError, does not abort,
\* caches the session and calls back.
C9_BadConfigurationReported ==
    (/\ request.op = "loader"
     /\ request.id \notin DOMAIN before
     /\ ConfigurationUnloadable)
    => /\ emitErrors > 0
       /\ ~request.threw
       /\ request.id \in DOMAIN loaderInstances
       /\ callbacks # << >>

----------------------------------------------------------------------------
(* C10 *)

\* C10: each session's watch-run and emit plugins are registered once, a
\* cached session is never removed or replaced (it keeps its service, with
\* the configuration it was made with), and a request for a cached key is
\* served by that session without making a service.
C10_OneSessionPerKey ==
    /\ NoDuplicates(watchRunPlugins)
    /\ NoDuplicates(emitPlugins)
    /\ Range(watchRunPlugins) = DOMAIN loaderInstances
    /\ Range(emitPlugins) = DOMAIN loaderInstances
    /\ \A id \in DOMAIN before :
           /\ id \in DOMAIN loaderInstances
           /\ loaderInstances[id].serial = before[id].serial
           /\ loaderInstances[id].sourceMap = before[id].sourceMap
           /\ loaderInstances[id].fileNames = before[id].fileNames
    /\ \A id, other \in DOMAIN loaderInstances :
           loaderInstances[id].serial = loaderInstances[other].serial => id = other
    /\ (request.op = "loader" /\ request.id \in DOMAIN before) => emitErrors = 0

\* A request served by the session an earlier request cached, while another
\* session is cached too.
C10_Witness ==
    /\ Served
    /\ request.id \in DOMAIN before
    /\ callbacks # << >>
    /\ Cardinality(DOMAIN loaderInstances) = 2
    /\ Len(watchRunPlugins) = 2

----------------------------------------------------------------------------
(* C11 *)

\* The diagnostics of the entries of a list of the compilation.
DiagnosticsOf(list) == {list[i].diagnostic : i \in DOMAIN list}

\* How many entries of a list were made of a diagnostic.
EntriesOf(list, diagnostic) ==
    Cardinality({i \in DOMAIN list : list[i].diagnostic = diagnostic})

\* How many programs of the emit report a diagnostic in a list of theirs.
Reporting(kind, diagnostic) ==
    Cardinality({id \in DOMAIN request.programs :
                    diagnostic \in Range(request.programs[id][kind])})

\* C11: on the emit hook every semantic diagnostic of every program is
\* appended to the warnings of the compilation, once for each program that
\* reports it, and never to the errors; every syntactic diagnostic is
\* appended to the errors, once for each program that reports it, and never
\* to the warnings.
C11_SemanticWarnsSyntacticFails ==
    request.op = "emit" =>
        /\ \A diagnostic \in SemanticDiagnostics :
               /\ EntriesOf(request.compilation.warnings, diagnostic)
                      = Reporting("semantic", diagnostic)
               /\ diagnostic \notin DiagnosticsOf(request.compilation.errors)
        /\ \A diagnostic \in SyntacticDiagnostics :
               /\ EntriesOf(request.compilation.errors, diagnostic)
                      = Reporting("syntactic", diagnostic)
               /\ diagnostic \notin DiagnosticsOf(request.compilation.warnings)

\* An emit over two instances, one of which reports a semantic and a
\* syntactic diagnostic.
C11_Witness ==
    /\ request.op = "emit"
    /\ Cardinality(DOMAIN request.programs) = 2
    /\ \E id \in DOMAIN request.programs :
           /\ request.programs[id].semantic # << >>
           /\ request.programs[id].syntactic # << >>
    /\ request.compilation.warnings # << >>
    /\ request.compilation.errors # << >>

----------------------------------------------------------------------------
(* C12 *)

\* The number a string of decimal digits stands for.
RECURSIVE NumberOf(_)
NumberOf(numeral) ==
    IF numeral = << >>
    THEN 0
    ELSE 10 * NumberOf(SubSeq(numeral, 1, Len(numeral) - 1))
             + (CHOOSE n \in 0..9 : Digits[n + 1] = numeral[Len(numeral)])

\* A string is the decimal numeral of n: digits only, no leading zero.
IsNumeralOf(numeral, n) ==
    /\ numeral # << >>
    /\ \A i \in DOMAIN numeral : numeral[i] \in Range(Digits)
    /\ Len(numeral) > 1 => numeral[1] # "0"
    /\ NumberOf(numeral) = n

\* A string reads "(line,character): message".
Reads(string, line, character, message) ==
    \E comma, paren \in DOMAIN string :
        /\ 1 < comma /\ comma < paren
        /\ string[1] = "("
        /\ IsNumeralOf(SubSeq(string, 2, comma - 1), line)
        /\ string[comma] = ","
        /\ IsNumeralOf(SubSeq(string, comma + 1, paren - 1), character)
        /\ SubSeq(string, paren, paren + 2) = <<")", ":", " ">>
        /\ SubSeq(string, paren + 3, Len(string)) = message

\* C12: formatDiagnostic renders a diagnostic that has a file, at an offset
\* that is character c of line l counted from 0, as "(l+1,c+1): " followed by
\* the flattened message, and a diagnostic without a file as the flattened
\* message alone.
C12_FormatsLineAndCharacterFromOne ==
    request.op = "formatDiagnostic" =>
        LET diagnostic == request.diagnostic[1]
            flattened == flattenDiagnosticMessageText(diagnostic.messageText, <<"\n">>)
        IN  IF diagnostic.file # Undefined
            THEN LET at == getLineAndCharacterOfPosition(diagnostic.file[1],
                                                         diagnostic.start)
                 IN  Reads(request.message[1], at.line + 1, at.character + 1, flattened)
            ELSE request.message = Some(flattened)

\* A diagnostic with a chain of two messages at the tenth character of the
\* first line, rendered with a two-digit character and an indented second
\* message.
C12_Witness ==
    /\ request.op = "formatDiagnostic"
    /\ request.diagnostic[1].file # Undefined
    /\ request.diagnostic[1].messageText.kind = "chain"
    /\ request.diagnostic[1].start = 9
    /\ request.diagnostic[1].file[1].fileName = A_TS
    /\ request.message = Some(<<"(", "1", ",", "1", "0", ")", ":", " ",
                               "m", "\n", " ", " ", "n">>)

----------------------------------------------------------------------------
(* C13 *)

\* C13 as stated: a compile request for a path without a record leaves the
\* path's record at version 0, and a compile request for a path with a record
\* leaves the record with the request's text at the next version.
C13_CreatedAtZero ==
    Served =>
        /\ request.resourcePath \in DOMAIN FilesNow
        /\ FilesNow[request.resourcePath] =
               [version |-> IF request.resourcePath \in DOMAIN FilesBefore
                            THEN FilesBefore[request.resourcePath].version + 1
                            ELSE 0,
                text |-> request.content]

\* C13, amended: a compile request for a path that is on disk leaves the
\* path's record with the request's text, at version 1 when the path had no
\* record and at the next version when it had one; a compile request for a
\* path that is not on disk leaves the path without a record.
C13_CreatedAtOne ==
    Served =>
        IF fileExists(disk, request.resourcePath)
        THEN /\ request.resourcePath \in DOMAIN FilesNow
             /\ FilesNow[request.resourcePath] =
                    [version |-> IF request.resourcePath \in DOMAIN FilesBefore
                                 THEN FilesBefore[request.resourcePath].version + 1
                                 ELSE 1,
                     text |-> request.content]
        ELSE request.resourcePath \notin DOMAIN FilesNow

\* The first request for a path, in a session that already holds another
\* path: the record is made and stands at version 1.
C13_Witness ==
    /\ Served
    /\ request.id \in DOMAIN before
    /\ request.resourcePath \notin DOMAIN FilesBefore
    /\ request.resourcePath \in DOMAIN FilesNow
    /\ FilesNow[request.resourcePath] = [version |-> 1, text |-> request.content]

----------------------------------------------------------------------------
(* C14 *)

\* C14 as stated: the version stamp the compiler is given for a path of a
\* session is never less than a stamp it was given for the path before, and
\* when it is equal to one, the text is the text it was given with that one.
C14_StampsGrowAndTellTexts ==
    \A now \in GivenNow : \A earlier \in given :
        (now[1] = earlier[1] /\ now[2] = earlier[2]) =>
            /\ now[3] >= earlier[3]
            /\ now[3] = earlier[3] => now[4] = earlier[4]

----------------------------------------------------------------------------
(* C15 *)

\* The paths, other than the target, that had a record when the request
\* asked for their snapshot.
ResolvedWithRecord ==
    (DOMAIN resolved \cap DOMAIN FilesBefore) \ {request.resourcePath}

\* C15 as stated: getScriptSnapshot for a path that has a record returns the
\* record's text and keeps the record, whether the path is on disk or not.
C15_RecordServedWhateverOnDisk ==
    request.op = "loader" =>
        \A fileName \in ResolvedWithRecord :
            /\ resolved[fileName] = Some(FilesBefore[fileName].text)
            /\ fileName \in DOMAIN FilesNow
            /\ FilesNow[fileName] = FilesBefore[fileName]

\* C15, amended: getScriptSnapshot for a path that has a record and is on
\* disk returns the record's text, whatever the file holds, and keeps the
\* record as it is; for a path that has a record and is not on disk it
\* returns undefined and removes the record.
C15_RecordServedWhileOnDisk ==
    request.op = "loader" =>
        \A fileName \in ResolvedWithRecord :
            IF fileExists(disk, fileName)
            THEN /\ resolved[fileName] = Some(FilesBefore[fileName].text)
                 /\ fileName \in DOMAIN FilesNow
                 /\ FilesNow[fileName] = FilesBefore[fileName]
            ELSE /\ resolved[fileName] = Undefined
                 /\ fileName \notin DOMAIN FilesNow

\* A path that an earlier request compiled, so that its record is past
\* version 0 with a text that is not the text on disk, is served from the
\* record, and in the same pass a path with a record that has left the disk
\* is dropped.
C15_Witness ==
    /\ request.op = "loader"
    /\ \E fileName \in ResolvedWithRecord :
           /\ Readable(fileName)
           /\ FilesBefore[fileName].version > 0
           /\ FilesBefore[fileName].text # disk[fileName]
           /\ resolved[fileName] = Some(FilesBefore[fileName].text)
    /\ \E fileName \in ResolvedWithRecord :
           /\ ~fileExists(disk, fileName)
           /\ resolved[fileName] = Undefined
           /\ fileName \notin DOMAIN FilesNow

----------------------------------------------------------------------------
(* C16 *)

\* C16: a watch cycle makes and removes no session and no record, and a
\* record it leaves different from what it was belongs to a path that the
\* cycle reports and that ends in ".d.ts"; the record of a path that is not
\* reported, and of a path that is no declaration file, is as it was.
C16_WatchTouchesReportedDeclarations ==
    request.op = "watch-run" =>
        /\ DOMAIN loaderInstances = DOMAIN before
        /\ \A id \in DOMAIN before :
               /\ DOMAIN loaderInstances[id].files = DOMAIN before[id].files
               /\ \A fileName \in DOMAIN before[id].files :
                      loaderInstances[id].files[fileName] # before[id].files[fileName]
                          => /\ fileName \in Range(request.mtimes)
                             /\ isDefinition(fileName)

\* A watch cycle that reports a module and a declaration file, both with a
\* record whose text is not the text on disk: the declaration file's record
\* changes, the module's does not.
C16_Witness ==
    /\ request.op = "watch-run"
    /\ \E id \in DOMAIN before :
           /\ \E fileName \in DOMAIN before[id].files \cap Range(request.mtimes) :
                  /\ ~isDefinition(fileName)
                  /\ Readable(fileName)
                  /\ before[id].files[fileName].text # disk[fileName]
                  /\ loaderInstances[id].files[fileName] = before[id].files[fileName]
           /\ \E fileName \in DOMAIN before[id].files \cap Range(request.mtimes) :
                  /\ isDefinition(fileName)
                  /\ loaderInstances[id].files[fileName] # before[id].files[fileName]

----------------------------------------------------------------------------
(* C17 *)

\* A loader is the loader of the compile request that ran last.
LoaderOfRequest(this) ==
    /\ request.op = "loader"
    /\ InstanceId(this) = request.id
    /\ this.query = request.query
    /\ this.resourcePath = request.resourcePath
    /\ this.sourceMap = request.sourceMap

\* C17 as stated: addDependency is called for a path only on the loader of
\* the compile request in flight, and only for a path that is on disk and
\* ends in ".d.ts"; currentLoader is unset whenever no compile request is in
\* flight, so that a watch cycle and an emit register no dependency.
C17_DependenciesOnlyInFlight ==
    /\ \A dependency \in dependencies :
           /\ LoaderOfRequest(dependency[1])
           /\ fileExists(disk, dependency[2])
           /\ isDefinition(dependency[2])
    /\ currentLoader = Undefined
    /\ request.op \in {"watch-run", "emit"} => dependencies = {}

----------------------------------------------------------------------------
(* C18 *)

\* C18 as stated: whatever a watch cycle reports, the watch-run handler of
\* every session ends without an exception and has called its completion
\* callback once when the cycle is over.
C18_WatchRunCompletes ==
    request.op = "watch-run" =>
        /\ ~request.threw
        /\ request.cbs = watchRunPlugins

----------------------------------------------------------------------------
(* C19 *)

\* C19 as stated: a compile request is served by a session that was made
\* for the request's context and query, so that requests whose (context,
\* query) pairs differ are served by different sessions.
C19_SessionOfOwnPair ==
    (Served /\ request.id \in DOMAIN before) =>
        /\ before[request.id].context = request.context
        /\ before[request.id].query = request.query

----------------------------------------------------------------------------
(* C20 *)

\* C20 as stated: every compile request ends without an exception, having
\* called loader.callback once: with an error, or with the code and with a
\* source map exactly when the request asked for one.
C20_OneCallbackPerRequest ==
    request.op = "loader" =>
        /\ ~request.threw
        /\ Len(callbacks) = 1
        /\ \/ callbacks[1].err # Undefined
           \/ /\ callbacks[1].contents # Undefined
              /\ (callbacks[1].sourceMap # Undefined) <=> request.sourceMap

====
